---- MODULE Spec2Model ----
(***************************************************************************)
(* Rate limiting of jodit-ai-adapter: MemoryRateLimiter (fixed window, in  *)
(* process) and RedisRateLimiter (sliding log in a shared Redis store),    *)
(* the factory and createApp that build them, and the Express middleware   *)
(* (the gate) that admits or rejects requests.                             *)
(* Time is counted in abstract milliseconds.  Spec is the limiter called   *)
(* directly (on Redis each caller may hold its own RedisRateLimiter: the   *)
(* instances share the store and keep no count of their own); GateSpec is  *)
(* the application from its start-up on, with requests passing the gate.   *)
(***************************************************************************)
EXTENDS Integers, FiniteSets, Sequences, TLC

\* configuration of the limiter under analysis
maxRequests == 2
windowMs == 2
keyPrefix == "rl:"

\* bounds of the analysis
MaxTime == 2
MaxCalls == 3
MaxLocalCalls == 5
NumRandom == 2

Keys == {"u1", "admin"}
Callers == {1, 2}
Times == 0..MaxTime
RandomValues == 1..NumRandom

VARIABLES
    backend,        \* "memory" | "redis": the implementation the factory built
    skipOn,         \* whether config.skip is set
    clock,          \* Date.now(), shared by the processes and the store
    storage,        \* MemoryRateLimiter.storage: prefixed key -> RequestRecord
    zset,           \* Redis: prefixed key -> sorted set of <<score, member suffix>>
    ttl,            \* Redis: prefixed key -> absolute expiry deadline of the key
    conn,           \* state of the Redis connection / server
    readyPromise,   \* RedisRateLimiter.__iseReadyPromise: "pending" | "settled"
    pc,             \* per caller: where its pending call is suspended
    call,           \* per caller: the pending call
    last,           \* the call that returned in the latest step, with its result
    charged,        \* history: key -> timestamp -> number of charged consumes
    granted,        \* history: key -> timestamp -> number of them with allowed = true
    cleanupInterval,\* MemoryRateLimiter.cleanupInterval: "active" | "cleared"
    app,            \* createApp: the configuration before, the status after start-up
    gate,           \* per caller: its request suspended in the middleware
    res             \* the response of the request the middleware finished last

vars == <<backend, skipOn, clock, storage, zset, ttl, conn, readyPromise,
          pc, call, last, charged, granted, cleanupInterval, app, gate, res>>

Max(a, b) == IF a >= b THEN a ELSE b

\* variant: the key is left out of the prefixed key
getPrefixedKeyShared(key) == <<keyPrefix, "">>

getPrefixedKey(key) == <<keyPrefix, key>>

PrefixedKeys == {getPrefixedKey(k) : k \in Keys}

\* config.skip of the tests: (key) => key.startsWith('admin:')
skip(key) == key = "admin"

\* variant: the skip function is never consulted
ShouldSkipNever(key) == FALSE

\* "this.config.skip && (await this.config.skip(key))"
ShouldSkip(key) == skipOn /\ skip(key)

----------------------------------------------------------------------------
\* RateLimitResult values

Result(a, c, rem, rt) ==
    [allowed |-> a, current |-> c, limit |-> maxRequests, remaining |-> rem,
     resetTime |-> rt]

SkipResult == Result(TRUE, 0, maxRequests, 0)

\* variant: the catch block denies the request
FailClosedResult == Result(FALSE, 0, maxRequests, 0)

FailOpenResult == Result(TRUE, 0, maxRequests, 0)

NoResult == [allowed |-> FALSE, current |-> 0, limit |-> 0, remaining |-> 0,
             resetTime |-> 0]

NoCall == [op |-> "none", key |-> "none", now |-> 0, current |-> 0, seen |-> 0]

NoLast == [op |-> "none", key |-> "none", kind |-> "none", now |-> 0,
           r |-> NoResult, seen |-> 0]

\* "seen" is history: what the call's count should be according to the calls made
Returned(op, key, kind, now, r, seen) ==
    [op |-> op, key |-> key, kind |-> kind, now |-> now, r |-> r, seen |-> seen]

----------------------------------------------------------------------------
\* values of the middleware and of createApp

\* Number.prototype.toString() of a non-negative integer: its decimal digits
RECURSIVE toString(_)
toString(n) == IF n < 10 THEN <<n>> ELSE toString(n \div 10) \o <<n % 10>>

\* Math.ceil(n / d) for n >= 0, d > 0
Ceil(n, d) == (n + d - 1) \div d

Unset == [set |-> FALSE, format |-> "none", text |-> << >>]

\* res.setHeader(name, n.toString())
Decimal(n) == [set |-> TRUE, format |-> "decimal", text |-> toString(n)]

\* res.setHeader(name, new Date(ms).toISOString()): the instant written in ISO
\* 8601, here by the digits of its milliseconds
ISOString(ms) == [set |-> TRUE, format |-> "iso", text |-> toString(ms)]

NoHeaders == [limit |-> Unset, remaining |-> Unset, reset |-> Unset, retryAfter |-> Unset]

NoData == [limit |-> 0, current |-> 0, resetTime |-> 0]

NoError == [isBoom |-> FALSE, statusCode |-> 0, message |-> "", data |-> NoData]

\* "message = 'Too many requests, please try again later'"
message == "Too many requests, please try again later"

\* Boom.tooManyRequests(message, data)
tooManyRequests(msg, data) ==
    [isBoom |-> TRUE, statusCode |-> 429, message |-> msg, data |-> data]

\* what a callback or a limiter may throw: a plain Error or some Boom error
Thrown(e) ==
    IF e = "Boom"
    THEN [isBoom |-> TRUE, statusCode |-> 403, message |-> "Forbidden", data |-> NoData]
    ELSE [isBoom |-> FALSE, statusCode |-> 500, message |-> "Error", data |-> NoData]

Errors == {"Error", "Boom"}

\* a request suspended in the middleware: its key and the middleware's options
NoGate == [key |-> "none", includeHeaders |-> FALSE, onLimitReached |-> FALSE]

\* the response of a request: how the middleware left it ("next" | "error"),
\* the headers it set, and what happened on the way: whether the request's
\* skip predicate was true, whether consume returned (and what), whether
\* consume rejected, the options includeHeaders and onLimitReached ("hook")
\* it was handled with, and how often onLimitReached was called, with which key
NoRes == [outcome |-> "none", error |-> NoError, headers |-> NoHeaders,
          key |-> "none", now |-> 0, skipped |-> FALSE, consumed |-> FALSE,
          rejected |-> FALSE, r |-> NoResult, includeHeaders |-> FALSE,
          hook |-> FALSE, notified |-> 0, notifiedKey |-> "none"]

\* the state of the application: its rateLimit configuration until createApp
\* has run, then "serving" or, when construction threw, "failed"
Started(status) ==
    [status |-> status, entry |-> "none", enabled |-> FALSE, type |-> "none",
     redisUrl |-> "none"]

----------------------------------------------------------------------------
\* MemoryRateLimiter

\* "if (!record || now - record.windowStart >= this.config.windowMs)"
\* variant: the window is taken as over one millisecond early
WindowElapsedEarly(st, pk, now) ==
    pk \notin DOMAIN st \/ now - st[pk].windowStart >= windowMs - 1

WindowElapsed(st, pk, now) ==
    pk \notin DOMAIN st \/ now - st[pk].windowStart >= windowMs

\* variant: a new window keeps the windowStart of the record it replaces
MemoryConsumeStorageKeepStart(st, pk, now) ==
    IF WindowElapsed(st, pk, now)
    THEN [x \in DOMAIN st \cup {pk} |->
            IF x = pk
            THEN [count |-> 1,
                  windowStart |-> IF pk \in DOMAIN st THEN st[pk].windowStart ELSE now]
            ELSE st[x]]
    ELSE [st EXCEPT ![pk].count = @ + 1]

MemoryConsumeStorage(st, pk, now) ==
    IF WindowElapsed(st, pk, now)
    THEN [x \in DOMAIN st \cup {pk} |->
            IF x = pk THEN [count |-> 1, windowStart |-> now] ELSE st[x]]
    ELSE [st EXCEPT ![pk].count = @ + 1]

\* variant: remaining computed without Math.max(0, ...)
MemoryConsumeResultUnclamped(st, pk, now) ==
    IF WindowElapsed(st, pk, now)
    THEN Result(TRUE, 1, maxRequests - 1, windowMs)
    ELSE LET count == st[pk].count + 1
         IN  Result(count <= maxRequests, count, maxRequests - count,
                    windowMs - (now - st[pk].windowStart))

MemoryConsumeResult(st, pk, now) ==
    IF WindowElapsed(st, pk, now)
    THEN Result(TRUE, 1, maxRequests - 1, windowMs)
    ELSE LET count == st[pk].count + 1
         IN  Result(count <= maxRequests, count, Max(0, maxRequests - count),
                    windowMs - (now - st[pk].windowStart))

MemoryGetStateResult(st, pk, now) ==
    IF WindowElapsed(st, pk, now)
    THEN Result(TRUE, 0, maxRequests, 0)
    ELSE Result(st[pk].count < maxRequests, st[pk].count,
                Max(0, maxRequests - st[pk].count),
                windowMs - (now - st[pk].windowStart))

\* variant: reset clears the whole map
MemoryResetStorageAll(st, pk) == [x \in {} |-> st[x]]

MemoryResetStorage(st, pk) == [x \in DOMAIN st \ {pk} |-> st[x]]

\* variant: the sweep also removes the records in the last millisecond of
\* their window
MemoryCleanupStorageEager(st, now) ==
    [pk \in {x \in DOMAIN st : now - st[x].windowStart < windowMs - 1} |-> st[pk]]

\* variant: the sweep keeps a record that is exactly windowMs old
MemoryCleanupStorageStrict(st, now) ==
    [pk \in {x \in DOMAIN st : now - st[x].windowStart <= windowMs} |-> st[pk]]

MemoryCleanupStorage(st, now) ==
    [x \in {y \in DOMAIN st : ~(now - st[y].windowStart >= windowMs)} |-> st[x]]

----------------------------------------------------------------------------
\* RedisRateLimiter: the store commands

\* variant: the upper end of the range taken as exclusive
zremrangebyscoreExclusive(z, windowStart) == {e \in z : ~(e.score < windowStart)}

\* ZREMRANGEBYSCORE key 0 window_start (both ends inclusive, scores >= 0)
zremrangebyscore(z, windowStart) == {e \in z : ~(e.score <= windowStart)}

zcard(z) == Cardinality(z)

\* ZADD key score member: a member already present only has its score updated
zadd(z, score, member) ==
    {e \in z : e.member # member} \cup {[score |-> score, member |-> member]}

\* "now .. math.random()": the member is the timestamp followed by the random
Member(now, random) == <<now, random>>

\* the Lua script of consume, executed atomically by the store
ScriptCurrent(z, now) == zcard(zremrangebyscore(z, now - windowMs))

ScriptZset(z, now, random) ==
    zadd(zremrangebyscore(z, now - windowMs), now, Member(now, random))

\* consume, after the script returned "current"
RedisConsumeResult(scriptResult) ==
    LET current == scriptResult + 1
    IN  Result(current <= maxRequests, current, Max(0, maxRequests - current),
               windowMs)

\* ZRANGE key 0 0 WITHSCORES: the score of the oldest entry
OldestScore(z) == CHOOSE s \in {e.score : e \in z} : \A e \in z : s <= e.score

RedisGetStateResult(current, z, now) ==
    Result(current < maxRequests, current, Max(0, maxRequests - current),
           IF z # {} THEN Max(0, windowMs - (now - OldestScore(z))) ELSE 0)

----------------------------------------------------------------------------
\* history bookkeeping

Bump(h, key, now) == [h EXCEPT ![key][now] = @ + 1]

RECURSIVE SumUpTo(_, _)
SumUpTo(f, t) == IF t < 0 THEN 0 ELSE f[t] + SumUpTo(f, t - 1)

Total(h, key) == SumUpTo(h[key], MaxTime)

Stamps(key) == {t \in Times : charged[key][t] > 0}

\* every charged consume of the key is less than windowMs old at "now"
InWindow(key, now) == \A t \in Stamps(key) : now - t < windowMs

\* every charged consume of the key is at least windowMs old at "now"
AllExpired(key, now) == \A t \in Stamps(key) : now - t >= windowMs

\* the number of consumes a count taken at "now" has to report, -1 when the
\* two backends' window policies differ on it
Seen(key, now) ==
    IF InWindow(key, now) THEN Total(charged, key)
    ELSE IF AllExpired(key, now) THEN 0 ELSE -1

Pending ==
    Cardinality({i \in Callers : call[i].op = "consume" /\ ~ShouldSkip(call[i].key)})

TotalCharged == Total(charged, "u1") + Total(charged, "admin")

\* the analysis issues at most MaxCalls consume calls that can be charged, and
\* at most MaxLocalCalls on the memory backend, whose state is small
CallBudget == IF backend = "memory" THEN MaxLocalCalls ELSE MaxCalls

MayConsume(key) == ShouldSkip(key) \/ TotalCharged + Pending < CallBudget

\* and keeps at most one getState or reset in flight beside the consumes
MayCall(op, key) ==
    IF op = "consume" THEN MayConsume(key)
    ELSE \A j \in Callers : call[j].op \in {"none", "consume"}

Charge(key, now, r) ==
    /\ charged' = Bump(charged, key, now)
    /\ granted' = IF r.allowed THEN Bump(granted, key, now) ELSE granted

NoCharge == UNCHANGED <<charged, granted>>

Forget(key) ==
    /\ charged' = [charged EXCEPT ![key] = [t \in Times |-> 0]]
    /\ granted' = [granted EXCEPT ![key] = [t \in Times |-> 0]]

UnchangedRedis == UNCHANGED <<zset, ttl, conn, readyPromise>>
UnchangedGate == UNCHANGED <<app, gate, res>>
UnchangedConfig == UNCHANGED <<backend, skipOn, cleanupInterval>> /\ UnchangedGate

----------------------------------------------------------------------------
\* actions of the MemoryRateLimiter

\* the synchronous tail of consume, from "const prefixedKey" on
MemoryCharge(i, key) ==
    LET pk == getPrefixedKey(key)
        r  == MemoryConsumeResult(storage, pk, clock)
    IN  /\ storage' = MemoryConsumeStorage(storage, pk, clock)
        /\ last' = Returned("consume", key, "charged", clock, r, 0)
        /\ Charge(key, clock, r)
        /\ pc' = [pc EXCEPT ![i] = "idle"]
        /\ call' = [call EXCEPT ![i] = NoCall]

\* the consume calls of the key suspended at "await skip"
Suspended(key) ==
    {j \in Callers : pc[j] = "await" /\ call[j].op = "consume" /\ call[j].key = key}

\* consume(key) is called; with a skip function it suspends at "await skip";
\* "seen" is history: how many consumes of the key were suspended before it
MemoryConsume(i, key) ==
    /\ backend = "memory"
    /\ pc[i] = "idle"
    /\ MayConsume(key)
    /\ IF skipOn
       THEN /\ pc' = [pc EXCEPT ![i] = "await"]
            /\ call' = [call EXCEPT ![i] = [NoCall EXCEPT !.op = "consume", !.key = key,
                                                         !.seen = Cardinality(Suspended(key))]]
            /\ last' = NoLast
            /\ UNCHANGED storage
            /\ NoCharge
       ELSE MemoryCharge(i, key)
    /\ UNCHANGED clock
    /\ UnchangedRedis
    /\ UnchangedConfig

\* the skip promise resolves and consume runs to its end
MemoryResume(i) ==
    /\ backend = "memory"
    /\ pc[i] = "await"
    /\ IF ShouldSkip(call[i].key)
       THEN /\ last' = Returned("consume", call[i].key, "skip", clock, SkipResult, 0)
            /\ pc' = [pc EXCEPT ![i] = "idle"]
            /\ call' = [call EXCEPT ![i] = NoCall]
            /\ UNCHANGED storage
            /\ NoCharge
       ELSE MemoryCharge(i, call[i].key)
    /\ UNCHANGED clock
    /\ UnchangedRedis
    /\ UnchangedConfig

MemoryGetState(i, key) ==
    /\ backend = "memory"
    /\ pc[i] = "idle"
    /\ last' = Returned("getState", key, "state", clock,
                        MemoryGetStateResult(storage, getPrefixedKey(key), clock),
                        Seen(key, clock))
    /\ UNCHANGED <<clock, storage, pc, call>>
    /\ NoCharge
    /\ UnchangedRedis
    /\ UnchangedConfig

MemoryReset(i, key) ==
    /\ backend = "memory"
    /\ pc[i] = "idle"
    /\ storage' = MemoryResetStorage(storage, getPrefixedKey(key))
    /\ last' = Returned("reset", key, "reset", clock, NoResult, Total(charged, key))
    /\ Forget(key)
    /\ UNCHANGED <<clock, pc, call>>
    /\ UnchangedRedis
    /\ UnchangedConfig

\* variant: the interval keeps firing after close
MemoryCleanupAfterClose ==
    /\ backend = "memory"
    /\ storage' = MemoryCleanupStorage(storage, clock)
    /\ last' = Returned("cleanup", "none", "cleanup", clock, NoResult,
                        Cardinality(DOMAIN storage \ DOMAIN storage'))
    /\ UNCHANGED <<clock, pc, call>>
    /\ NoCharge
    /\ UnchangedRedis
    /\ UnchangedConfig

\* the setInterval callback, fired while the interval is not cleared; "seen"
\* is the number of records it removed
MemoryCleanup ==
    /\ backend = "memory"
    /\ cleanupInterval = "active"
    /\ storage' = MemoryCleanupStorage(storage, clock)
    /\ last' = Returned("cleanup", "none", "cleanup", clock, NoResult,
                        Cardinality(DOMAIN storage \ DOMAIN storage'))
    /\ UNCHANGED <<clock, pc, call>>
    /\ NoCharge
    /\ UnchangedRedis
    /\ UnchangedConfig

\* close(): clearInterval(this.cleanupInterval); this.storage.clear()
MemoryCloseStorage(st) == [x \in {} |-> st[x]]

\* close() has no await: it runs to its end in one step; "seen" is the number
\* of records the map held
MemoryClose(i) ==
    /\ backend = "memory"
    /\ pc[i] = "idle"
    /\ cleanupInterval' = "cleared"
    /\ storage' = MemoryCloseStorage(storage)
    /\ last' = Returned("close", "none", "close", clock, NoResult,
                        Cardinality(DOMAIN storage))
    /\ charged' = [k \in Keys |-> [t \in Times |-> 0]]
    /\ granted' = [k \in Keys |-> [t \in Times |-> 0]]
    /\ UNCHANGED <<clock, pc, call, backend, skipOn>>
    /\ UnchangedRedis
    /\ UnchangedGate

----------------------------------------------------------------------------
\* actions of the RedisRateLimiter

StorePcs == {"eval", "zrem", "zcard", "zrange", "del"}

\* ioredis hands a command to the socket while the connection looks ready
Writable == conn \in {"ready", "hung"}

Finish(i) ==
    /\ pc' = [pc EXCEPT ![i] = "idle"]
    /\ call' = [call EXCEPT ![i] = NoCall]

\* a call made before the connection settled waits at "await __iseReadyPromise"
RedisAwaitReady(i, op, key) ==
    /\ backend = "redis"
    /\ pc[i] = "idle"
    /\ readyPromise = "pending"
    /\ MayCall(op, key)
    /\ pc' = [pc EXCEPT ![i] = "await"]
    /\ call' = [call EXCEPT ![i] = [NoCall EXCEPT !.op = op, !.key = key]]
    /\ last' = NoLast
    /\ UNCHANGED <<clock, storage>>
    /\ NoCharge
    /\ UnchangedRedis
    /\ UnchangedConfig

\* the call passes "await __iseReadyPromise": it is new, or it was waiting
Entering(i, op, key) ==
    /\ backend = "redis"
    /\ readyPromise = "settled"
    /\ \/ pc[i] = "idle" /\ MayCall(op, key)
       \/ pc[i] = "await" /\ call[i].op = op /\ call[i].key = key

Sent(i, op, key, stage) ==
    /\ pc' = [pc EXCEPT ![i] = stage]
    /\ call' = [call EXCEPT ![i] = [op |-> op, key |-> key, current |-> 0, seen |-> 0,
                                    now |-> IF op = "reset" THEN 0 ELSE clock]]
    /\ last' = NoLast

\* consume: skip result, or Date.now() is read and the script is sent; with
\* enableOfflineQueue = false a command is rejected at once unless writable
RedisConsume(i, key) ==
    /\ Entering(i, "consume", key)
    /\ IF ShouldSkip(key)
       THEN /\ last' = Returned("consume", key, "skip", clock, SkipResult, 0)
            /\ Finish(i)
       ELSE IF Writable
       THEN Sent(i, "consume", key, "eval")
       ELSE /\ last' = Returned("consume", key, "failopen", clock, FailOpenResult, 0)
            /\ Finish(i)
    /\ UNCHANGED <<clock, storage>>
    /\ NoCharge
    /\ UnchangedRedis
    /\ UnchangedConfig

\* the store runs the script and consume returns the charged result
RedisEval(i) ==
    /\ pc[i] = "eval"
    /\ conn = "ready"
    /\ LET key == call[i].key
           pk  == getPrefixedKey(key)
           now == call[i].now
           r   == RedisConsumeResult(ScriptCurrent(zset[pk], now))
       IN  /\ \E random \in RandomValues :
                 zset' = [zset EXCEPT ![pk] = ScriptZset(zset[pk], now, random)]
           /\ ttl' = [ttl EXCEPT ![pk] = clock + windowMs]
           /\ last' = Returned("consume", key, "charged", now, r, 0)
           /\ Charge(key, now, r)
    /\ Finish(i)
    /\ UNCHANGED <<clock, storage, conn, readyPromise>>
    /\ UnchangedConfig

RedisGetState(i, key) ==
    /\ Entering(i, "getState", key)
    /\ IF Writable
       THEN Sent(i, "getState", key, "zrem")
       ELSE /\ last' = Returned("getState", key, "failopen", clock, FailOpenResult, 0)
            /\ Finish(i)
    /\ UNCHANGED <<clock, storage>>
    /\ NoCharge
    /\ UnchangedRedis
    /\ UnchangedConfig

\* variant: getState purges up to "now" instead of "now - windowMs"
RedisZremUpToNow(i) ==
    /\ pc[i] = "zrem"
    /\ conn = "ready"
    /\ LET pk == getPrefixedKey(call[i].key)
           z  == zremrangebyscore(zset[pk], call[i].now)
       IN  /\ zset' = [zset EXCEPT ![pk] = z]
           /\ ttl' = [ttl EXCEPT ![pk] = IF z = {} THEN 0 ELSE @]
    /\ pc' = [pc EXCEPT ![i] = "zcard"]
    /\ last' = NoLast
    /\ UNCHANGED <<clock, storage, conn, readyPromise, call>>
    /\ NoCharge
    /\ UnchangedConfig

\* a sorted set left empty no longer exists, so it has no expiry either
RedisZrem(i) ==
    /\ pc[i] = "zrem"
    /\ conn = "ready"
    /\ LET pk == getPrefixedKey(call[i].key)
           z  == zremrangebyscore(zset[pk], call[i].now - windowMs)
       IN  /\ zset' = [zset EXCEPT ![pk] = z]
           /\ ttl' = [ttl EXCEPT ![pk] = IF z = {} THEN 0 ELSE @]
    /\ pc' = [pc EXCEPT ![i] = "zcard"]
    /\ last' = NoLast
    /\ UNCHANGED <<clock, storage, conn, readyPromise, call>>
    /\ NoCharge
    /\ UnchangedConfig

RedisZcard(i) ==
    /\ pc[i] = "zcard"
    /\ conn = "ready"
    /\ call' = [call EXCEPT ![i].current = zcard(zset[getPrefixedKey(call[i].key)]),
                            ![i].seen = Seen(call[i].key, call[i].now)]
    /\ pc' = [pc EXCEPT ![i] = "zrange"]
    /\ last' = NoLast
    /\ UNCHANGED <<clock, storage>>
    /\ NoCharge
    /\ UnchangedRedis
    /\ UnchangedConfig

RedisZrange(i) ==
    /\ pc[i] = "zrange"
    /\ conn = "ready"
    /\ last' = Returned("getState", call[i].key, "state", call[i].now,
                        RedisGetStateResult(call[i].current,
                                            zset[getPrefixedKey(call[i].key)],
                                            call[i].now),
                        call[i].seen)
    /\ Finish(i)
    /\ UNCHANGED <<clock, storage>>
    /\ NoCharge
    /\ UnchangedRedis
    /\ UnchangedConfig

RedisReset(i, key) ==
    /\ Entering(i, "reset", key)
    /\ IF Writable
       THEN Sent(i, "reset", key, "del")
       ELSE /\ last' = Returned("reset", key, "resetfail", clock, NoResult, 0)
            /\ Finish(i)
    /\ UNCHANGED <<clock, storage>>
    /\ NoCharge
    /\ UnchangedRedis
    /\ UnchangedConfig

RedisDel(i) ==
    /\ pc[i] = "del"
    /\ conn = "ready"
    /\ zset' = [zset EXCEPT ![getPrefixedKey(call[i].key)] = {}]
    /\ ttl' = [ttl EXCEPT ![getPrefixedKey(call[i].key)] = 0]
    /\ last' = Returned("reset", call[i].key, "reset", clock, NoResult,
                        Total(charged, call[i].key))
    /\ Forget(call[i].key)
    /\ Finish(i)
    /\ UNCHANGED <<clock, storage, conn, readyPromise>>
    /\ UnchangedConfig

\* the pending command is rejected: the catch blocks of consume/getState/reset
RedisCommandFails(i) ==
    /\ pc[i] \in StorePcs
    /\ conn = "down"
    /\ last' = IF call[i].op = "reset"
               THEN Returned("reset", call[i].key, "resetfail", clock, NoResult, 0)
               ELSE Returned(call[i].op, call[i].key, "failopen", call[i].now,
                             FailOpenResult, 0)
    /\ Finish(i)
    /\ UNCHANGED <<clock, storage>>
    /\ NoCharge
    /\ UnchangedRedis
    /\ UnchangedConfig

----------------------------------------------------------------------------
\* the connection and the store

Environment(from, to) ==
    /\ conn \in from
    /\ conn' = to
    /\ readyPromise' = "settled"
    /\ last' = NoLast
    /\ UNCHANGED <<clock, storage, zset, ttl, pc, call>>
    /\ NoCharge
    /\ UnchangedConfig

\* 'ready' is emitted
ConnectionReady == Environment({"connecting", "down", "hung"}, "ready")

\* 'error' is emitted, the connection is closed
ConnectionError == Environment({"connecting", "ready", "hung"}, "down")

\* the store stops answering while the socket stays open
StoreHangs == Environment({"ready"}, "hung")

----------------------------------------------------------------------------
\* time

\* Redis drops a key whose PEXPIRE deadline has passed
Expired(pk, now) == zset[pk] # {} /\ ttl[pk] <= now

Tick ==
    /\ clock < MaxTime
    /\ clock' = clock + 1
    /\ zset' = [pk \in PrefixedKeys |-> IF Expired(pk, clock + 1) THEN {} ELSE zset[pk]]
    /\ ttl' = [pk \in PrefixedKeys |-> IF Expired(pk, clock + 1) THEN 0 ELSE ttl[pk]]
    /\ last' = NoLast
    /\ UNCHANGED <<storage, conn, readyPromise, pc, call>>
    /\ NoCharge
    /\ UnchangedConfig

Init ==
    /\ backend \in {"memory", "redis"}
    /\ skipOn \in BOOLEAN
    /\ clock = 0
    /\ storage = [x \in {} |-> [count |-> 0, windowStart |-> 0]]
    /\ zset = [pk \in PrefixedKeys |-> {}]
    /\ ttl = [pk \in PrefixedKeys |-> 0]
    /\ conn = IF backend = "redis" THEN "connecting" ELSE "none"
    /\ readyPromise = IF backend = "redis" THEN "pending" ELSE "none"
    /\ pc = [i \in Callers |-> "idle"]
    /\ call = [i \in Callers |-> NoCall]
    /\ last = NoLast
    /\ charged = [k \in Keys |-> [t \in Times |-> 0]]
    /\ granted = [k \in Keys |-> [t \in Times |-> 0]]
    /\ cleanupInterval = IF backend = "memory" THEN "active" ELSE "none"
    /\ app = Started("serving")
    /\ gate = [i \in Callers |-> NoGate]
    /\ res = NoRes

Next ==
    \/ \E i \in Callers, k \in Keys : MemoryConsume(i, k)
    \/ \E i \in Callers : MemoryResume(i)
    \/ \E i \in Callers, k \in Keys : MemoryGetState(i, k)
    \/ \E i \in Callers, k \in Keys : MemoryReset(i, k)
    \/ MemoryCleanup
    \/ \E i \in Callers : MemoryClose(i)
    \/ \E i \in Callers, k \in Keys : RedisAwaitReady(i, "consume", k)
    \/ \E i \in Callers, k \in Keys : RedisAwaitReady(i, "getState", k)
    \/ \E i \in Callers, k \in Keys : RedisAwaitReady(i, "reset", k)
    \/ \E i \in Callers, k \in Keys : RedisConsume(i, k)
    \/ \E i \in Callers : RedisEval(i)
    \/ \E i \in Callers, k \in Keys : RedisGetState(i, k)
    \/ \E i \in Callers : RedisZrem(i)
    \/ \E i \in Callers : RedisZcard(i)
    \/ \E i \in Callers : RedisZrange(i)
    \/ \E i \in Callers, k \in Keys : RedisReset(i, k)
    \/ \E i \in Callers : RedisDel(i)
    \/ \E i \in Callers : RedisCommandFails(i)
    \/ ConnectionReady
    \/ ConnectionError
    \/ StoreHangs
    \/ Tick

Spec == Init /\ [][Next]_vars

\* the event loop runs a continuation whose promise has settled
AwaitResumes(i) ==
    /\ pc[i] = "await"
    /\ \/ MemoryResume(i)
       \/ \E k \in Keys : RedisConsume(i, k) \/ RedisGetState(i, k) \/ RedisReset(i, k)

\* a store that is reachable answers a command, a lost connection rejects it
StoreAnswers(i) ==
    \/ RedisEval(i)
    \/ RedisZrem(i)
    \/ RedisZcard(i)
    \/ RedisZrange(i)
    \/ RedisDel(i)
    \/ RedisCommandFails(i)

\* ioredis ends a connection attempt with 'ready' or, at connectTimeout, 'error'
ConnectionSettles == conn = "connecting" /\ (ConnectionReady \/ ConnectionError)

FairSpec ==
    /\ Spec
    /\ \A i \in Callers : WF_vars(AwaitResumes(i)) /\ WF_vars(StoreAnswers(i))
    /\ WF_vars(ConnectionSettles)

\* the timer of setInterval fires again and again until clearInterval
SweepSpec == Spec /\ WF_vars(MemoryCleanup)

----------------------------------------------------------------------------
\* RateLimiterFactory and createApp: which limiter a configuration builds.
\* redisUrl is "absent" (no such property), "undefined" (the property is
\* there without a value, as for an unset REDIS_URL) or "url".

\* variant: the type guard also asks for a value
isRedisConfigDefined(redisUrl) == redisUrl = "url"

\* "'redisUrl' in config"
isRedisConfig(redisUrl) == redisUrl # "absent"

\* RateLimiterFactory.create(type, config): the class built, or "throws"
create(type, redisUrl) ==
    IF type = "memory" THEN "memory"
    ELSE IF type = "redis"
    THEN IF isRedisConfig(redisUrl) THEN "redis" ELSE "throws"
    ELSE "throws"

\* RateLimiterFactory.createFromEnv(): null ("none") when disabled, the
\* memory limiter when REDIS_URL is not set or the type is not 'redis'
createFromEnv(enabled, type, redisUrl) ==
    IF ~enabled THEN "none"
    ELSE IF type = "redis"
    THEN IF redisUrl # "url" THEN create("memory", "absent") ELSE create("redis", redisUrl)
    ELSE create("memory", "absent")

\* createApp: the config object always carries the redisUrl property, and an
\* error of the factory is caught and logged: no middleware is mounted
createApp(enabled, type, redisUrl) ==
    IF enabled
    THEN LET limiter == create(type, IF redisUrl = "absent" THEN "undefined" ELSE redisUrl)
         IN  IF limiter = "throws" THEN "none" ELSE limiter
    ELSE "none"

\* the ways a program builds its limiter
Entries == {"createApp", "create", "createFromEnv"}

Built(a) ==
    IF a.entry = "createApp" THEN createApp(a.enabled, a.type, a.redisUrl)
    ELSE IF a.entry = "createFromEnv" THEN createFromEnv(a.enabled, a.type, a.redisUrl)
    ELSE create(a.type, a.redisUrl)

Configurations ==
    {a \in [status : {"starting"}, entry : Entries, enabled : BOOLEAN,
            type : {"memory", "redis", "other"},
            redisUrl : {"absent", "undefined", "url"}] :
        a.entry = "create" => a.enabled}

\* the program starts: the limiter is built, or construction throws
Startup ==
    /\ app.status = "starting"
    /\ LET limiter == Built(app)
       IN  /\ app' = Started(IF limiter = "throws" THEN "failed" ELSE "serving")
           /\ backend' = IF limiter = "throws" THEN "none" ELSE limiter
           /\ conn' = IF limiter = "redis" THEN "connecting" ELSE "none"
           /\ readyPromise' = IF limiter = "redis" THEN "pending" ELSE "none"
           /\ cleanupInterval' = IF limiter = "memory" THEN "active" ELSE "none"
    /\ UNCHANGED <<skipOn, clock, storage, zset, ttl, pc, call, last, gate, res>>
    /\ NoCharge

----------------------------------------------------------------------------
\* rateLimitMiddleware and createRateLimitMiddleware

\* "if (includeHeaders) { res.setHeader(...) ... }"
GateHeaders(g, r, now) ==
    IF g.includeHeaders
    THEN [limit |-> Decimal(r.limit), remaining |-> Decimal(r.remaining),
          reset |-> ISOString(now + r.resetTime), retryAfter |-> Unset]
    ELSE NoHeaders

\* "catch (error)": a Boom error is handed to next(error), any other error
\* is logged and next() is called
Catch(rs, e) ==
    IF Thrown(e).isBoom
    THEN [rs EXCEPT !.outcome = "error", !.error = Thrown(e)]
    ELSE [rs EXCEPT !.outcome = "next"]

\* "Math.ceil(result.resetTime / 1000)"
retryAfterSeconds(r) == Ceil(r.resetTime, 1000)

\* variant: the headers are set only on requests that are let through
GateResponseHeadersWhenAllowed(g, r, now, cb) ==
    LET base  == [NoRes EXCEPT !.key = g.key, !.now = now, !.consumed = TRUE,
                               !.r = r, !.hook = g.onLimitReached,
                               !.includeHeaders = g.includeHeaders]
        tooMany(x) ==
            [x EXCEPT !.headers.retryAfter = Decimal(retryAfterSeconds(r)),
                      !.outcome = "error",
                      !.error = tooManyRequests(message,
                                    [limit |-> r.limit, current |-> r.current,
                                     resetTime |-> r.resetTime])]
    IN  IF r.allowed
        THEN [base EXCEPT !.outcome = "next", !.headers = GateHeaders(g, r, now)]
        ELSE tooMany(base)

\* the middleware from the return of consume on; cb is what onLimitReached
\* does when it is called: "ok", or the error it throws
GateResponse(g, r, now, cb) ==
    LET base   == [NoRes EXCEPT !.key = g.key, !.now = now, !.consumed = TRUE,
                                !.r = r, !.hook = g.onLimitReached,
                                !.includeHeaders = g.includeHeaders,
                                !.headers = GateHeaders(g, r, now)]
        called == [base EXCEPT !.notified = 1, !.notifiedKey = g.key]
        tooMany(x) ==
            [x EXCEPT !.headers.retryAfter = Decimal(retryAfterSeconds(r)),
                      !.outcome = "error",
                      !.error = tooManyRequests(message,
                                    [limit |-> r.limit, current |-> r.current,
                                     resetTime |-> r.resetTime])]
    IN  IF r.allowed THEN [base EXCEPT !.outcome = "next"]
        ELSE IF g.onLimitReached
        THEN IF cb = "ok" THEN tooMany(called) ELSE Catch(called, cb)
        ELSE tooMany(base)

\* variant: a skipped request gets the headers of an unused budget
GateSkipResponseWithHeaders(now) ==
    [NoRes EXCEPT !.outcome = "next", !.now = now, !.skipped = TRUE,
                  !.headers = GateHeaders([NoGate EXCEPT !.includeHeaders = TRUE],
                                          SkipResult, now)]

\* "if (skip && (await skip(req))) { next(); return; }"
GateSkipResponse(now) ==
    [NoRes EXCEPT !.outcome = "next", !.now = now, !.skipped = TRUE]

\* variant: the middleware built without a limiter rejects
NoopResponseRejecting(now) ==
    [NoRes EXCEPT !.outcome = "error", !.now = now,
                  !.error = tooManyRequests(message, NoData)]

\* createRateLimitMiddleware(null): "async (_req, _res, next) => { next(); }"
NoopResponse(now) == [NoRes EXCEPT !.outcome = "next", !.now = now]

\* the middleware runs from one await to the next without interruption: a
\* request that passed the skip check calls consume at once, and a request
\* whose consume returned goes on to its response before anything else runs
Serving == app.status = "serving"

MustCall(i) == gate[i] # NoGate /\ pc[i] = "idle" /\ last.op # "consume"

HasResult(i) == gate[i] # NoGate /\ pc[i] = "idle" /\ last.op = "consume"

GateFree ==
    /\ Serving
    /\ res = NoRes
    /\ \A i \in Callers : ~MustCall(i) /\ ~HasResult(i)

UnchangedLimiter ==
    /\ UNCHANGED <<backend, skipOn, cleanupInterval, app, clock, storage>>
    /\ UnchangedRedis
    /\ NoCharge

\* what the skip predicate of the middleware does for a request: there is
\* none, it returns true or false, or it throws
SkipOutcomes == {"none", "true", "false"} \cup Errors

\* what keyExtractor(req) does: it returns the key, or throws
ExtractorOutcomes == {"key"} \cup Errors

\* a request enters rateLimitMiddleware, up to the key extraction; sk is what
\* the skip function does and kx what the key extractor does
GateEnter(i, key) ==
    /\ GateFree
    /\ backend # "none"
    /\ pc[i] = "idle"
    /\ gate[i] = NoGate
    /\ \E includeHeaders \in BOOLEAN, onLimitReached \in BOOLEAN,
          sk \in SkipOutcomes, kx \in ExtractorOutcomes :
          IF sk = "true"
          THEN res' = GateSkipResponse(clock) /\ UNCHANGED gate
          ELSE IF sk \in Errors
          THEN res' = Catch([NoRes EXCEPT !.now = clock], sk) /\ UNCHANGED gate
          ELSE IF kx \in Errors
          THEN res' = Catch([NoRes EXCEPT !.now = clock], kx) /\ UNCHANGED gate
          ELSE /\ MayConsume(key)
               /\ gate' = [gate EXCEPT ![i] = [key |-> key,
                                               includeHeaders |-> includeHeaders,
                                               onLimitReached |-> onLimitReached]]
               /\ res' = NoRes
    /\ last' = NoLast
    /\ UNCHANGED <<pc, call>>
    /\ UnchangedLimiter

\* a request enters the middleware built without a limiter
GatePassThrough(i) ==
    /\ GateFree
    /\ backend = "none"
    /\ pc[i] = "idle"
    /\ res' = NoopResponse(clock)
    /\ last' = NoLast
    /\ UNCHANGED <<pc, call, gate>>
    /\ UnchangedLimiter

\* "await rateLimiter.consume(key)": the call, up to its first await
GateCalls(i) ==
    /\ Serving
    /\ res = NoRes
    /\ MustCall(i)
    /\ \/ MemoryConsume(i, gate[i].key)
       \/ RedisAwaitReady(i, "consume", gate[i].key)
       \/ RedisConsume(i, gate[i].key)

\* the pending consume of a request goes on
GateLimiterStep(i) ==
    /\ GateFree
    /\ gate[i] # NoGate
    /\ pc[i] # "idle"
    /\ \/ MemoryResume(i)
       \/ RedisConsume(i, call[i].key)
       \/ RedisEval(i)
       \/ RedisCommandFails(i)

\* consume rejects: the limiters of this repository do when config.skip
\* does; the middleware's catch block handles the error
ConsumeRejects(i, e) ==
    /\ Serving
    /\ res = NoRes
    /\ skipOn
    /\ gate[i] # NoGate
    /\ \/ /\ GateFree
          /\ pc[i] = "await"
          /\ backend = "memory" \/ readyPromise = "settled"
       \/ /\ MustCall(i)
          /\ backend = "redis"
          /\ readyPromise = "settled"
    /\ res' = Catch([NoRes EXCEPT !.key = gate[i].key, !.now = clock,
                                  !.rejected = TRUE], e)
    /\ gate' = [gate EXCEPT ![i] = NoGate]
    /\ Finish(i)
    /\ last' = NoLast
    /\ UnchangedLimiter

\* consume returned: headers, the rejection or next()
GateContinues(i) ==
    /\ Serving
    /\ res = NoRes
    /\ HasResult(i)
    /\ \E cb \in {"ok"} \cup Errors :
          res' = GateResponse(gate[i], last.r, clock, cb)
    /\ gate' = [gate EXCEPT ![i] = NoGate]
    /\ UNCHANGED <<pc, call, last>>
    /\ UnchangedLimiter

\* the request leaves the middleware
ResponseEnds ==
    /\ res # NoRes
    /\ res' = NoRes
    /\ last' = NoLast
    /\ UNCHANGED <<pc, call, gate>>
    /\ UnchangedLimiter

\* the connection, the clock and the cleanup interval between two requests
GateEnvironment ==
    /\ GateFree
    /\ \/ ConnectionReady
       \/ ConnectionError
       \/ StoreHangs
       \/ Tick
       \/ MemoryCleanup

GateInit ==
    /\ app \in Configurations
    /\ skipOn \in BOOLEAN
    /\ skipOn => app.entry = "create"
    /\ backend = "none"
    /\ conn = "none"
    /\ readyPromise = "none"
    /\ cleanupInterval = "none"
    /\ clock = 0
    /\ storage = [x \in {} |-> [count |-> 0, windowStart |-> 0]]
    /\ zset = [pk \in PrefixedKeys |-> {}]
    /\ ttl = [pk \in PrefixedKeys |-> 0]
    /\ pc = [i \in Callers |-> "idle"]
    /\ call = [i \in Callers |-> NoCall]
    /\ last = NoLast
    /\ charged = [k \in Keys |-> [t \in Times |-> 0]]
    /\ granted = [k \in Keys |-> [t \in Times |-> 0]]
    /\ gate = [i \in Callers |-> NoGate]
    /\ res = NoRes

GateNext ==
    \/ Startup
    \/ \E i \in Callers, k \in Keys : GateEnter(i, k)
    \/ \E i \in Callers : GatePassThrough(i)
    \/ \E i \in Callers : GateCalls(i)
    \/ \E i \in Callers : GateLimiterStep(i)
    \/ \E i \in Callers, e \in Errors : ConsumeRejects(i, e)
    \/ \E i \in Callers : GateContinues(i)
    \/ ResponseEnds
    \/ GateEnvironment

GateSpec == GateInit /\ [][GateNext]_vars

----------------------------------------------------------------------------
\* properties

ChargedConsume == last.op = "consume" /\ last.kind = "charged"

\* the allowed consumes of a key with a timestamp in t .. t + windowMs - 1
RECURSIVE GrantedInSpan(_, _, _)
GrantedInSpan(key, t, n) ==
    IF n = 0 \/ t > MaxTime THEN 0
    ELSE granted[key][t] + GrantedInSpan(key, t + 1, n - 1)

Min(a, b) == IF a <= b THEN a ELSE b

\* C1: on the Redis backend, of the consume calls of a key whose timestamps
\* lie in one span shorter than windowMs at most maxRequests are allowed, and
\* when all N calls made lie in such a span and have returned, exactly
\* min(N, maxRequests) of them are allowed.
C1_AtMostLimitPerSpan ==
    backend = "redis" =>
        \A key \in Keys :
            /\ \A t \in Times : GrantedInSpan(key, t, windowMs) <= maxRequests
            /\ (/\ \A s, t \in Stamps(key) : s - t < windowMs
                /\ \A i \in Callers : ~(call[i].op = "consume" /\ call[i].key = key))
               => Total(granted, key) = Min(Total(charged, key), maxRequests)

\* C2: the k-th consume of a key inside one window returns current = k,
\* allowed = (k <= maxRequests) and remaining = max(0, maxRequests - k).
C2_KthConsumeReturnsK ==
    (ChargedConsume /\ InWindow(last.key, last.now)) =>
        LET k == Total(charged, last.key)
        IN  /\ last.r.current = k
            /\ last.r.allowed = (k <= maxRequests)
            /\ last.r.remaining = Max(0, maxRequests - k)

\* the earliest charged consume of the key
First(key) == CHOOSE t \in Stamps(key) : \A u \in Stamps(key) : t <= u

\* the charged consumes of the key other than the one that just returned
OtherStamps(h, key, now) ==
    {t \in Times : h[key][t] > (IF t = now THEN 1 ELSE 0)}

\* C3 as stated: once at least windowMs has elapsed since the first consume
\* of a key, the next consume returns current = 1 and allowed = true, whatever
\* consumes came in between, inside that window.
C3_FreshAfterWindowSinceFirst ==
    (/\ ChargedConsume
     /\ last.now - First(last.key) >= windowMs
     /\ \A t \in OtherStamps(charged, last.key, last.now) :
            t - First(last.key) < windowMs)
    => (last.r.current = 1 /\ last.r.allowed)

\* C3 amended: a consume returns current = 1 and allowed = true once at least
\* windowMs has elapsed since every earlier consume of the key and, on the
\* memory backend, already once windowMs has elapsed since the consume that
\* opened the key's window (the record's windowStart), whatever came between.
C3_FreshAfterWindow ==
    [][ /\ (/\ ChargedConsume'
            /\ OtherStamps(charged', last'.key, last'.now) # {}
            /\ \A t \in OtherStamps(charged', last'.key, last'.now) :
                   last'.now - t >= windowMs)
           => (last'.r.current = 1 /\ last'.r.allowed)
        /\ (/\ ChargedConsume'
            /\ backend = "memory"
            /\ getPrefixedKey(last'.key) \in DOMAIN storage
            /\ last'.now - storage[getPrefixedKey(last'.key)].windowStart >= windowMs)
           => (last'.r.current = 1 /\ last'.r.allowed)
      ]_vars

\* a consume that starts afresh after a window in which the budget was used up
C3_Witness ==
    /\ ChargedConsume
    /\ last.r.current = 1
    /\ \E t \in Times : last.now - t >= windowMs /\ charged[last.key][t] >= maxRequests

\* C4 as stated: every result of consume and getState has
\* remaining = max(0, limit - current) >= 0, limit = maxRequests and
\* allowed = (current <= limit).
C4_ResultInvariant ==
    last.op \in {"consume", "getState"} =>
        /\ last.r.remaining = Max(0, last.r.limit - last.r.current)
        /\ last.r.remaining >= 0
        /\ last.r.limit = maxRequests
        /\ last.r.allowed = (last.r.current <= last.r.limit)

\* C4 amended: as stated for consume; a result of getState has
\* allowed = (current < limit) instead.
C4_ResultInvariantAmended ==
    last.op \in {"consume", "getState"} =>
        /\ last.r.remaining = Max(0, last.r.limit - last.r.current)
        /\ last.r.remaining >= 0
        /\ last.r.limit = maxRequests
        /\ last.op = "consume" => last.r.allowed = (last.r.current <= last.r.limit)
        /\ last.op = "getState" => last.r.allowed = (last.r.current < last.r.limit)

\* getState on a key whose budget is exactly used up
C4_Witness ==
    /\ last.op = "getState"
    /\ last.kind = "state"
    /\ last.r.current = maxRequests
    /\ ~last.r.allowed

\* a step of some getState call
GetStateStep ==
    \/ last'.op = "getState"
    \/ \E i \in Callers :
          /\ pc'[i] # pc[i]
          /\ call[i].op = "getState" \/ call'[i].op = "getState"

\* C5: getState registers no event: no step of a getState changes a record,
\* adds an entry, or changes the count that any later getState or consume of
\* any key computes; so getState calls in a row return the same current and
\* the next consume returns what it would have returned without them.
C5_GetStateRegistersNoEvent ==
    [][ GetStateStep =>
          /\ storage' = storage
          /\ \A pk \in PrefixedKeys :
                /\ zset'[pk] \subseteq zset[pk]
                /\ zset'[pk] # {} => ttl'[pk] = ttl[pk]
                /\ \A t \in clock..MaxTime :
                      ScriptCurrent(zset'[pk], t) = ScriptCurrent(zset[pk], t)
      ]_vars

\* a getState that returned a count of at least two
C5_Witness ==
    /\ last.op = "getState"
    /\ last.kind = "state"
    /\ last.r.current >= 2

\* C6: getState reports the key's in-window count and allowed = (count <
\* maxRequests): after exactly maxRequests consumes current = maxRequests,
\* remaining = 0 and allowed = false; for an unseen or expired key current =
\* 0, remaining = maxRequests and allowed = true.
C6_GetStateAllowedIsNextRequest ==
    (last.op = "getState" /\ last.kind = "state" /\ last.seen >= 0) =>
        /\ last.r.current = last.seen
        /\ last.r.allowed = (last.seen < maxRequests)
        /\ last.r.remaining = Max(0, maxRequests - last.seen)

C8_SkipLeavesStateUnchanged ==
    [][ /\ (skipOn /\ last'.op = "consume" /\ skip(last'.key)) =>
              /\ last'.kind = "skip"
              /\ last'.r = Result(TRUE, 0, maxRequests, 0)
              /\ storage' = storage
              /\ zset' = zset
              /\ ttl' = ttl
        /\ skipOn =>
              \A key \in Keys :
                 skip(key) =>
                    /\ getPrefixedKey(key) \notin DOMAIN storage'
                    /\ zset'[getPrefixedKey(key)] = {}
      ]_vars

\* a skipped consume while another key has used up its budget
C8_Witness ==
    /\ last.op = "consume"
    /\ last.kind = "skip"
    /\ \E key \in Keys : Total(charged, key) > maxRequests

\* C9: a consume or getState whose store command is rejected, at once
\* because the connection is not writable or later because it is lost,
\* returns allowed = true, current = 0, remaining = maxRequests; a denied
\* result always comes from a count the store returned.
C9_FailOpen ==
    [][ /\ \A i \in Callers :
              (/\ call'[i] = NoCall
               /\ \/ pc[i] \in StorePcs /\ call[i].op # "reset" /\ conn = "down"
                  \/ /\ pc[i] \in {"idle", "await"}
                     /\ last'.op \in {"consume", "getState"}
                     /\ last'.kind # "skip"
                     /\ backend = "redis"
                     /\ ~Writable)
              => (/\ last'.kind = "failopen"
                  /\ last'.r.allowed
                  /\ last'.r.current = 0
                  /\ last'.r.remaining = maxRequests
                  /\ last'.r.limit = maxRequests)
        /\ (last'.op \in {"consume", "getState"} /\ ~last'.r.allowed) =>
              /\ last'.kind \in {"charged", "state"}
              /\ last'.r.current >= maxRequests
      ]_vars

\* a consume answered by the fail-open result although the budget is used up
C9_Witness ==
    /\ last.op = "consume"
    /\ last.kind = "failopen"
    /\ InWindow(last.key, last.now)
    /\ Total(charged, last.key) >= maxRequests

\* C10: every consume and getState call on the Redis backend eventually
\* returns, also when the store never becomes ready or never answers.
C10_CallsReturn ==
    \A i \in Callers :
        (backend = "redis" /\ call[i].op \in {"consume", "getState"})
            ~> (call[i].op = "none")

----------------------------------------------------------------------------
\* properties of the limiters, continued

\* C11: on the Redis backend a getState issued from any instance returns as
\* current the number of completed, charged consume calls of the key made by
\* all instances whose events are inside the trailing window; while the
\* consumes of a key lie in one window, those up to maxRequests are allowed
\* and the next one, from whichever instance, is denied.
C11_CrossInstanceCount ==
    backend = "redis" =>
        /\ (last.op = "getState" /\ last.kind = "state" /\ last.seen >= 0) =>
              last.r.current = last.seen
        /\ (ChargedConsume /\ InWindow(last.key, last.now)) =>
              last.r.allowed = (Total(charged, last.key) <= maxRequests)

\* the step belongs to a call on the key
StepOnKey(a) ==
    \/ last'.key = a
    \/ \E i \in Callers : pc'[i] # pc[i] /\ (call[i].key = a \/ call'[i].key = a)

\* the step leaves the key's record, entries and expiry as they are
KeyUntouched(b) ==
    LET pk == getPrefixedKey(b)
    IN  /\ (pk \in DOMAIN storage') = (pk \in DOMAIN storage)
        /\ pk \in DOMAIN storage => storage'[pk] = storage[pk]
        /\ zset'[pk] = zset[pk]
        /\ ttl'[pk] = ttl[pk]

\* C18: budgets are partitioned by key: no step of a consume, getState or
\* reset on one key changes the record, the entries or the expiry of another
\* key, and a consume is denied only when more than maxRequests consumes of
\* its own key were charged.
C18_BudgetsPartitionedByKey ==
    [][ /\ \A a \in Keys :
              StepOnKey(a) => \A b \in Keys \ {a} : KeyUntouched(b)
        /\ (ChargedConsume' /\ ~last'.r.allowed) =>
              Total(charged', last'.key) > maxRequests
      ]_vars

\* a first consume of a key is allowed while another key's budget is used up
C18_Witness ==
    /\ ChargedConsume
    /\ last.r.current = 1
    /\ last.r.allowed
    /\ \E a \in Keys \ {last.key} :
          InWindow(a, last.now) /\ Total(charged, a) >= maxRequests

\* C20: close on the memory limiter leaves the map empty and the cleanup
\* interval cleared, from every state; a cleared interval stays cleared and
\* the cleanup never runs again: a record is then removed only by reset or
\* close.
C20_CloseReleasesMapAndTask ==
    [][ /\ last'.op = "close" =>
              (DOMAIN storage' = {} /\ cleanupInterval' = "cleared")
        /\ cleanupInterval = "cleared" =>
              /\ cleanupInterval' = "cleared"
              /\ \A x \in DOMAIN storage :
                    x \in DOMAIN storage' \/ last'.op \in {"reset", "close"}
      ]_vars

\* a close that found a record for every key in the map
C20_Witness ==
    /\ last.op = "close"
    /\ last.seen = Cardinality(Keys)
    /\ cleanupInterval = "cleared"

----------------------------------------------------------------------------
\* properties of the middleware and of the start-up

\* C12: whenever consume returns allowed = false the middleware does not pass
\* the request on: it sets Retry-After to ceil(resetTime / 1000) and hands
\* next a 429 error with the message and the details limit, current and
\* resetTime; whenever consume returns allowed = true it calls next() and
\* sets no Retry-After.
C12_GateRejectsWhenDenied ==
    res.consumed =>
        IF res.r.allowed
        THEN res.outcome = "next" /\ res.headers.retryAfter = Unset
        ELSE /\ res.outcome = "error"
             /\ res.error = tooManyRequests(message,
                                [limit |-> res.r.limit, current |-> res.r.current,
                                 resetTime |-> res.r.resetTime])
             /\ res.headers.retryAfter = Decimal(Ceil(res.r.resetTime, 1000))

\* C13: a configured onLimitReached is called exactly once, with the key,
\* for a request whose consume returns allowed = false and never for an
\* allowed one; whatever the callback does, the denied request is rejected
\* with the 429 error and the Retry-After header.
C13_LimitReachedCallback ==
    (res.consumed /\ res.hook) =>
        /\ res.notified = (IF res.r.allowed THEN 0 ELSE 1)
        /\ res.notified = 1 => res.notifiedKey = res.key
        /\ ~res.r.allowed =>
              /\ res.outcome = "error"
              /\ res.error.statusCode = 429
              /\ res.headers.retryAfter.set

\* C14: when consume rejects, whatever the error, the middleware calls next()
\* without an error: no 429 and no error response.
C14_ConsumeErrorPasses ==
    res.rejected => (res.outcome = "next" /\ res.error = NoError)

\* C15: a request whose consume returned gets, with includeHeaders,
\* X-RateLimit-Limit = limit, X-RateLimit-Remaining = remaining and
\* X-RateLimit-Reset = the instant now + resetTime, whether it is then let
\* through or rejected; without includeHeaders none of the three is set.
C15_HeadersOnEveryConsumedRequest ==
    res.consumed =>
        IF res.includeHeaders
        THEN /\ res.headers.limit = Decimal(res.r.limit)
             /\ res.headers.remaining = Decimal(res.r.remaining)
             /\ res.headers.reset = ISOString(res.now + res.r.resetTime)
        ELSE /\ res.headers.limit = Unset
             /\ res.headers.remaining = Unset
             /\ res.headers.reset = Unset

\* a rejected request that carries the three headers
C15_Witness ==
    /\ res.consumed
    /\ res.includeHeaders
    /\ ~res.r.allowed
    /\ res.outcome = "error"
    /\ res.headers.remaining = Decimal(0)

\* C16: a request for which the middleware's skip predicate is true is passed
\* on with no header set, consume is not called for it and no record, entry
\* or count changes; a request that is not skipped gets the limiter's verdict.
C16_GateSkipPassesUntouched ==
    [][ /\ res'.skipped =>
              /\ res'.outcome = "next"
              /\ res'.headers = NoHeaders
              /\ ~res'.consumed
              /\ UNCHANGED <<storage, zset, ttl, charged, granted, pc, call>>
        /\ res'.consumed => res'.r = last'.r
      ]_vars

\* a skipped request passes while the budget of a key is used up
C16_Witness ==
    /\ res.skipped
    /\ res.outcome = "next"
    /\ \E k \in Keys : InWindow(k, clock) /\ Total(charged, k) > maxRequests

\* C17: the middleware built without a limiter passes every request on,
\* rejects none, sets no header and touches no limiter state.
C17_NoLimiterPassThrough ==
    (Serving /\ backend = "none") =>
        /\ res # NoRes =>
              /\ res.outcome = "next"
              /\ res.error = NoError
              /\ res.headers = NoHeaders
              /\ ~res.consumed
        /\ DOMAIN storage = {}
        /\ \A pk \in PrefixedKeys : zset[pk] = {}
        /\ \A k \in Keys : Total(charged, k) = 0
        /\ \A i \in Callers : pc[i] = "idle" /\ gate[i] = NoGate

\* a request passed on by the middleware without a limiter
C17_Witness ==
    /\ Serving
    /\ backend = "none"
    /\ res.outcome = "next"

\* the configuration selects the Redis backend without a store address, or
\* a backend type that does not exist
ConfigurationError(a) ==
    /\ a.enabled
    /\ \/ a.type = "redis" /\ a.redisUrl \in {"absent", "undefined"}
       \/ a.type = "other"

\* C19: a configuration error is fatal at construction: the start-up of a
\* program so configured throws, no limiter is created and the program does
\* not serve requests.
C19_ConfigurationErrorsFatal ==
    [][ (app.status = "starting" /\ ConfigurationError(app)) =>
            app'.status = "failed"
      ]_vars


\* ---------------------------------------------------------------------------
\* The life of a memory record

\* the step is a charged consume of the key stored under pk
ConsumeOf(pk) ==
    /\ last'.op = "consume"
    /\ last'.kind = "charged"
    /\ getPrefixedKey(last'.key) = pk

RecordShape ==
    \A pk \in DOMAIN storage :
        storage[pk].count >= 1 /\ storage[pk].windowStart <= clock

\* the transitions of the record of pk in one step; removals lists the
\* operations that may take an Active record to Absent besides the sweep
RecordTransition(pk, removals) ==
    LET before == pk \in DOMAIN storage
        after  == pk \in DOMAIN storage'
    IN  /\ ~before /\ after =>
              /\ ConsumeOf(pk)
              /\ storage'[pk] = [count |-> 1, windowStart |-> clock]
        /\ before /\ after =>
              IF ConsumeOf(pk)
              THEN IF clock - storage[pk].windowStart < windowMs
                   THEN storage'[pk] = [count |-> storage[pk].count + 1,
                                        windowStart |-> storage[pk].windowStart]
                   ELSE storage'[pk] = [count |-> 1, windowStart |-> clock]
              ELSE storage'[pk] = storage[pk]
        /\ before /\ ~after =>
              \/ last'.op = "cleanup" /\ clock - storage[pk].windowStart >= windowMs
              \/ last'.op = "reset" /\ getPrefixedKey(last'.key) = pk
              \/ last'.op \in removals
        /\ last'.op = "getState" \/ last'.kind = "skip" => storage' = storage

\* C21 as stated: a memory record is Absent or Active(count >= 1,
\* windowStart <= now), and its only transitions are Absent -> Active(1, now)
\* and Active(c, s) -> Active(c + 1, s) or Active(1, now) on a charged consume,
\* and Active -> Absent on a cleanup eviction or a reset of the key; getState
\* and skipped consumes change nothing.
C21_RecordStateMachineAsStated ==
    /\ [](backend = "memory" => RecordShape)
    /\ [][backend = "memory" =>
             \A pk \in PrefixedKeys : RecordTransition(pk, {})]_vars

\* C21 amended: the same state machine, with close() as a third way from
\* Active to Absent.
C21_RecordStateMachine ==
    /\ [](backend = "memory" => RecordShape)
    /\ [][backend = "memory" =>
             \A pk \in PrefixedKeys : RecordTransition(pk, {"close"})]_vars

\* the sweep has evicted the record of one key and left the record of the
\* other, which is in its second consume
C21_Witness ==
    /\ backend = "memory"
    /\ last.op = "cleanup"
    /\ last.seen = 1
    /\ \E pk \in DOMAIN storage : storage[pk].count = 2


\* ---------------------------------------------------------------------------
\* The periodic sweep

\* one run of the sweep: the elapsed records go, the others stay as they are
SweepRun ==
    /\ DOMAIN storage' \subseteq DOMAIN storage
    /\ \A pk \in DOMAIN storage :
          IF clock - storage[pk].windowStart >= windowMs
          THEN pk \notin DOMAIN storage'
          ELSE pk \in DOMAIN storage' /\ storage'[pk] = storage[pk]

\* the record of pk has elapsed and nothing has renewed it
Elapsed(pk) ==
    /\ backend = "memory"
    /\ cleanupInterval = "active"
    /\ pk \in DOMAIN storage
    /\ clock - storage[pk].windowStart >= windowMs

\* C22: each run of the memory sweep removes every record with
\* now - windowStart >= windowMs and leaves every other record unchanged, and
\* because the sweep keeps firing whatever the traffic is, an elapsed record
\* that no consume renews is eventually evicted (while the limiter is open).
C22_SweepEvictsElapsedOnly ==
    /\ [][last'.op = "cleanup" => SweepRun]_vars
    /\ \A pk \in PrefixedKeys : Elapsed(pk) ~> ~Elapsed(pk)

\* a sweep has removed one record and kept one that has not elapsed
C22_Witness ==
    /\ last.op = "cleanup"
    /\ last.seen = 1
    /\ \E pk \in DOMAIN storage : clock - storage[pk].windowStart < windowMs


\* ---------------------------------------------------------------------------
\* The order of the charges

\* consume call i, suspended at "await skip", resumes and is charged in this
\* step
ResumesCharged(i) ==
    /\ backend = "memory"
    /\ pc[i] = "await"
    /\ call[i].op = "consume"
    /\ pc'[i] = "idle"
    /\ last'.op = "consume"
    /\ last'.kind = "charged"

\* a consume of the same key that was issued before call i is still suspended
IssuedBeforeAndSuspended(i) ==
    {j \in Suspended(call[i].key) \ {i} : call[j].seen < call[i].seen}

\* C23: on the memory backend the consume calls of a key are charged in the
\* order in which they were issued, so that the i-th issued call of a window
\* returns current = i, also with an asynchronous skip function: no call is
\* charged while a call of the same key issued before it is still waiting.
C23_ChargedInIssueOrder ==
    [][\A i \in Callers : ResumesCharged(i) => IssuedBeforeAndSuspended(i) = {}]_vars


\* ---------------------------------------------------------------------------
\* The boundary of the window

\* the charged consumes of the key made so far whose timestamp t satisfies
\* from <= t and now - t < windowMs
RECURSIVE ChargedInWindow(_, _, _, _)
ChargedInWindow(key, from, now, t) ==
    IF t < 0 THEN 0
    ELSE (IF from <= t /\ now - t < windowMs THEN charged[key][t] ELSE 0)
         + ChargedInWindow(key, from, now, t - 1)

\* the past requests that a consume of the key at "now" has to count: on the
\* memory backend those of the record when now - windowStart < windowMs, on
\* the Redis backend those with now - timestamp < windowMs
CountedBefore(key, now) ==
    LET pk == getPrefixedKey(key)
    IN  IF backend = "memory"
        THEN IF WindowElapsed(storage, pk, now) THEN 0
             ELSE ChargedInWindow(key, storage[pk].windowStart,
                                  storage[pk].windowStart, MaxTime)
        ELSE ChargedInWindow(key, 0, now, MaxTime)

\* C24: a past request counts toward the current of a charged consume if and
\* only if its age (now - its timestamp, on the memory backend now - the
\* windowStart of its record) is strictly less than windowMs, so current is
\* one more than the number of those requests; after the purge of the Redis
\* script no entry that is windowMs old or older is left.
C24_CountsExactlyTheWindow ==
    [][last'.op = "consume" /\ last'.kind = "charged" =>
          /\ last'.r.current = CountedBefore(last'.key, last'.now) + 1
          /\ backend = "redis" =>
                \A e \in zset'[getPrefixedKey(last'.key)] :
                    e.score = last'.now \/ last'.now - e.score < windowMs]_vars


\* ---------------------------------------------------------------------------
\* The burst at the edge of two windows

\* the allowed consumes of the key in the window of its present record
GrantedInRecordWindow(key) ==
    GrantedInSpan(key, storage[getPrefixedKey(key)].windowStart, windowMs)

\* C25: on the memory backend, since the last reset or close, at most
\* 2 * maxRequests consumes of a key are allowed in any interval
\* t .. t + windowMs, and at most maxRequests inside the window of a record.
C25_AtMostTwiceLimitPerInterval ==
    backend = "memory" =>
        \A key \in Keys :
            /\ \A t \in Times : GrantedInSpan(key, t, windowMs + 1) <= 2 * maxRequests
            /\ getPrefixedKey(key) \in DOMAIN storage =>
                  GrantedInRecordWindow(key) <= maxRequests

\* the bound is reached: maxRequests allowed consumes in the window opened at
\* 0, maxRequests more at windowMs, and the next consume is denied
C25_Witness ==
    /\ backend = "memory"
    /\ \E key \in Keys :
          /\ GrantedInSpan(key, 0, windowMs + 1) = 2 * maxRequests
          /\ GrantedInRecordWindow(key) = maxRequests
          /\ last.op = "consume" /\ last.key = key /\ ~last.r.allowed


\* ---------------------------------------------------------------------------
\* The reset time of a charged consume

\* the time from "now" until the window of the key resets, in the state st of
\* the memory map and z of the Redis sorted set: windowStart + windowMs - now,
\* and for Redis the time until the oldest entry is windowMs old
TimeUntilReset(st, z, key, now) ==
    LET pk == getPrefixedKey(key)
    IN  IF backend = "memory"
        THEN st[pk].windowStart + windowMs - now
        ELSE OldestScore(z[pk]) + windowMs - now

\* C26: the resetTime of every charged consume is the time from now until the
\* window of the key resets (memory: windowStart + windowMs - now; Redis: until
\* the oldest entry in the window ages out, which is what getState reports),
\* and 0 < resetTime <= windowMs.
C26_ResetTimeIsTimeUntilReset ==
    [][last'.op = "consume" /\ last'.kind = "charged" =>
          /\ last'.r.resetTime = TimeUntilReset(storage', zset', last'.key, last'.now)
          /\ 0 < last'.r.resetTime
          /\ last'.r.resetTime <= windowMs]_vars


\* ---------------------------------------------------------------------------
\* The hand-over of the middleware

\* C27: whatever path a request takes through the middleware (skip, allowed,
\* rejected, error of the limiter, of a callback or of the key extractor), it
\* is handed on exactly once, by next() without an error or by next(error)
\* with the 429 rejection, and with no other error.
C27_HandsOnOnceWithNoErrorOr429 ==
    res # NoRes =>
        \/ res.outcome = "next" /\ res.error = NoError
        \/ /\ res.outcome = "error"
           /\ res.error.isBoom
           /\ res.error.statusCode = 429


\* ---------------------------------------------------------------------------
\* The sweep is not observable

\* the records of st that consume and getState do not treat as absent at "now"
Live(st, now) ==
    [pk \in {x \in DOMAIN st : ~WindowElapsed(st, x, now)} |-> st[pk]]

\* consume, getState and reset of any key at any time from "now" on return
\* the same from the maps a and b, and leave maps with the same live records
SameObservations(a, b, now) ==
    \A pk \in PrefixedKeys, t \in now .. MaxTime :
        /\ MemoryConsumeResult(a, pk, t) = MemoryConsumeResult(b, pk, t)
        /\ MemoryGetStateResult(a, pk, t) = MemoryGetStateResult(b, pk, t)
        /\ Live(MemoryConsumeStorage(a, pk, t), t)
              = Live(MemoryConsumeStorage(b, pk, t), t)
        /\ Live(MemoryResetStorage(a, pk), t) = Live(MemoryResetStorage(b, pk), t)

\* C28: the sweep of the memory backend is not observable: a run of the sweep
\* leaves the live records as they are, and a map answers consume, getState
\* and reset exactly as the map of its live records does, now and at any later
\* time; so a limiter whose sweep fires at arbitrary moments and one whose
\* sweep never fires return the same results.
C28_SweepIsTransparent ==
    /\ [](backend = "memory" => SameObservations(storage, Live(storage, clock), clock))
    /\ [][last'.op = "cleanup" =>
             /\ Live(storage', clock) = Live(storage, clock)
             /\ SameObservations(storage, storage', clock)]_vars

\* a sweep has removed the records of all the keys
C28_Witness ==
    /\ last.op = "cleanup"
    /\ last.seen = Cardinality(Keys)
    /\ DOMAIN storage = {}


\* ---------------------------------------------------------------------------
\* The expiry of a Redis key

\* the entries of pk that the expiry of the key discards in this step
Discarded(pk) == IF clock' # clock THEN zset[pk] \ zset'[pk] ELSE {}

\* the calls that have read Date.now() and whose commands on pk are still to
\* be executed by the store
InFlight(pk) ==
    {i \in Callers : /\ pc[i] \in {"eval", "zrem", "zcard", "zrange"}
                     /\ getPrefixedKey(call[i].key) = pk}

\* C29: the expiry of a Redis key, refreshed to windowMs by every consume,
\* never discards an entry that is still inside the window of a later consume
\* or getState: every discarded entry is at least windowMs old for the clock
\* and for every call whose commands are still to be executed.
C29_ExpiryDiscardsOnlyVoidEntries ==
    [][\A pk \in PrefixedKeys : \A e \in Discarded(pk) :
          /\ clock' - e.score >= windowMs
          /\ \A i \in InFlight(pk) : call[i].now - e.score >= windowMs]_vars

\* ---------------------------------------------------------------------------
\* One entry for each consume

\* the script of consume call i runs in this step
ScriptRuns(i) ==
    /\ pc[i] = "eval"
    /\ pc'[i] = "idle"
    /\ last'.op = "consume"
    /\ last'.kind = "charged"

\* C30: every charged consume on the Redis backend adds exactly one new entry
\* to the sorted set of the key: the cardinality after the script is the
\* cardinality after the purge plus one, and every entry that the purge kept
\* is still there, also when consumes of the key carry the same timestamp.
C30_ConsumeAddsOneEntry ==
    [][\A i \in Callers : ScriptRuns(i) =>
          LET pk   == getPrefixedKey(call[i].key)
              kept == zremrangebyscore(zset[pk], call[i].now - windowMs)
          IN  /\ zcard(zset'[pk]) = zcard(kept) + 1
              /\ \A e \in kept : \E f \in zset'[pk] : f.member = e.member]_vars

====
